---- MODULE Spec2Model ----
(***************************************************************************)
(* A model of the two DEX aggregator clients of this repository:           *)
(*   odos.OdosClient            GetTokenPrice, Quote, Assemble             *)
(*   kyberswap.KyberSwapClient  GetRoutes, BuildRoute, WithTimeout         *)
(*                                                                         *)
(* Strings are sequences of chunks (a chunk is a piece of text that the    *)
(* code never looks inside), so that fmt.Sprintf is concatenation and      *)
(* "the message contains the body" is a statement about subsequences.      *)
(* A JSON document is an abstract value; encoding/json is modelled by what *)
(* it does with the struct tags and with the kinds of values it meets.     *)
(* The remote server, the network and the wall clock are the environment:  *)
(* every call draws its reply from a small set.                            *)
(***************************************************************************)
EXTENDS Integers, Sequences, FiniteSets, Bags, TLC

(***************************************************************************)
(* Bounds of the model.                                                    *)
(***************************************************************************)
\* the wall clock runs over 0..MaxNow Unix seconds
MaxNow == 2
\* a response body carries at most MaxTrailing chunks after its first value
MaxTrailing == 1
\* at most MaxCalls calls are in the middle of their work at once
MaxCalls == 2

(***************************************************************************)
(* Strings.                                                                *)
(***************************************************************************)
EmptyString == << >>

Str(chunk) == << chunk >>

\* strings.Contains on chunk sequences
Contains(s, sub) ==
    \E i \in 0..(Len(s) - Len(sub)) : SubSeq(s, i + 1, i + Len(sub)) = sub

HasPrefix(s, prefix) ==
    /\ Len(prefix) <= Len(s)
    /\ SubSeq(s, 1, Len(prefix)) = prefix

\* the %d verb of fmt
FormatInt(n) == Str(ToString(n))

\* A chunk holding an ASCII control character: no URL may contain one.
CtlChunk == "\t"

\* net/url: a URL with a control character in it does not parse, and
\* http.NewRequest (also inside http.Client.Get) fails on it.
URLParses(url) == \A i \in 1..Len(url) : url[i] # CtlChunk

(***************************************************************************)
(* JSON values.  Every value has the same shape, so that any two can be    *)
(* compared: t is the kind, s a string, n a number, a an array's items,    *)
(* o the members of an object (a set of <<key, value>> pairs).             *)
(***************************************************************************)
JStr(s)  == [t |-> "str",  s |-> s,  n |-> 0, a |-> << >>, o |-> {}]
JNum(n)  == [t |-> "num",  s |-> "", n |-> n, a |-> << >>, o |-> {}]
JArr(a)  == [t |-> "arr",  s |-> "", n |-> 0, a |-> a,     o |-> {}]
JObj(o)  == [t |-> "obj",  s |-> "", n |-> 0, a |-> << >>, o |-> o]
JBool(b) == [t |-> "bool", s |-> "", n |-> (IF b THEN 1 ELSE 0), a |-> << >>, o |-> {}]
JNull    == [t |-> "null", s |-> "", n |-> 0, a |-> << >>, o |-> {}]
\* text that is no JSON value at all
JInvalid == [t |-> "invalid", s |-> "", n |-> 0, a |-> << >>, o |-> {}]

Has(obj, key) == \E p \in obj.o : p[1] = key
Member(obj, key) == (CHOOSE p \in obj.o : p[1] = key)[2]

(***************************************************************************)
(* Response bodies.  A body is a string whose first chunk is read as one   *)
(* JSON text; the chunks after it are whatever else the server sent.       *)
(***************************************************************************)
TxtEmptyObject == "{}"
TxtArray       == "[]"
TxtHTML        == "<html>"
TxtErrorObject == "{\"detail\":\"not found\"}"
TxtPrice       == "{\"currencyId\":\"USD\",\"price\":1}"
TxtPriceBad    == "{\"currencyId\":5}"
TxtQuote       == "{\"inTokens\":[\"0xA\"],\"outTokens\":[\"0xB\"],\"pathId\":\"p1\"}"
TxtQuoteBad    == "{\"inTokens\":\"0xA\"}"
TxtAssemble    == "{\"blockNumber\":7,\"transaction\":{\"to\":\"0xR\"}}"
TxtAssembleBad == "{\"blockNumber\":\"7\"}"
TxtRoute       == "{\"code\":0,\"data\":{\"routeSummary\":{\"tokenIn\":\"0xA\",\"tokenOut\":\"0xB\"},\"routerAddress\":\"0xR\"}}"
TxtRouteBad    == "{\"code\":\"0\"}"
TxtBuild       == "{\"code\":0,\"data\":{\"data\":\"0xcd\",\"routerAddress\":\"0xR\"}}"
TxtBuildBad    == "{\"data\":\"0xcd\"}"
TxtTrailing    == "trailing"

\* The JSON value a text denotes (the scanner of encoding/json).
ParseText(txt) ==
    CASE txt = TxtEmptyObject -> JObj({})
      [] txt = TxtArray       -> JArr(<< >>)
      [] txt = TxtErrorObject -> JObj({<<"detail", JStr("not found")>>})
      [] txt = TxtPrice       -> JObj({<<"currencyId", JStr("USD")>>, <<"price", JNum(1)>>})
      [] txt = TxtPriceBad    -> JObj({<<"currencyId", JNum(5)>>})
      [] txt = TxtQuote       -> JObj({<<"inTokens", JArr(<<JStr("0xA")>>)>>,
                                       <<"outTokens", JArr(<<JStr("0xB")>>)>>,
                                       <<"pathId", JStr("p1")>>})
      [] txt = TxtQuoteBad    -> JObj({<<"inTokens", JStr("0xA")>>})
      [] txt = TxtAssemble    -> JObj({<<"blockNumber", JNum(7)>>,
                                       <<"transaction", JObj({<<"to", JStr("0xR")>>})>>})
      [] txt = TxtAssembleBad -> JObj({<<"blockNumber", JStr("7")>>})
      [] txt = TxtRoute       -> JObj({<<"code", JNum(0)>>,
                                       <<"data", JObj({
                                           <<"routeSummary", JObj({<<"tokenIn", JStr("0xA")>>,
                                                                   <<"tokenOut", JStr("0xB")>>})>>,
                                           <<"routerAddress", JStr("0xR")>>})>>})
      [] txt = TxtRouteBad    -> JObj({<<"code", JStr("0")>>})
      [] txt = TxtBuild       -> JObj({<<"code", JNum(0)>>,
                                       <<"data", JObj({<<"data", JStr("0xcd")>>,
                                                       <<"routerAddress", JStr("0xR")>>})>>})
      [] txt = TxtBuildBad    -> JObj({<<"data", JStr("0xcd")>>})
      [] OTHER                -> JInvalid

\* The bodies a server may send to an operation whose well-formed answer is
\* `good` and whose ill-typed answer is `bad`: nothing at all, or one text
\* followed by up to MaxTrailing further chunks.
RECURSIVE Trailing(_)
Trailing(k) == IF k = 0 THEN << >> ELSE <<TxtTrailing>> \o Trailing(k - 1)

BodyHeads(good, bad) == {TxtEmptyObject, TxtHTML, TxtErrorObject, good, bad}

Bodies(good, bad) ==
    {EmptyString} \cup
    { Str(h) \o Trailing(k) : h \in BodyHeads(good, bad), k \in 0..MaxTrailing }

(***************************************************************************)
(* Decoding.  A decode result is [err, cause, json]: err tells whether the *)
(* decoder returned an error, cause is that error's text, json the value   *)
(* handed to the struct.                                                   *)
(***************************************************************************)
ErrEOF        == Str("EOF")
ErrUnexpected == Str("unexpected end of JSON input")
ErrSyntax     == Str("invalid character")
ErrType       == Str("json: cannot unmarshal")
ErrRead       == Str("unexpected EOF")
ErrRefused    == Str("connection refused")
ErrDeadline   == Str("Client.Timeout exceeded while awaiting headers")
ErrURL        == Str("net/url: invalid control character in URL")
ErrUnsupported == Str("json: unsupported value")

\* A response body as the client meets it: the chunks that arrive, and
\* whether the connection broke before the end of what the server sent.
BodyStream(reply) ==
    [data   |-> SubSeq(reply.body, 1, reply.cut),
     broken |-> reply.cut < Len(reply.body)]

\* io.ReadAll: everything up to a clean end, or the read error.
ReadAll(stream) ==
    IF stream.broken
    THEN [err |-> TRUE, cause |-> ErrRead, data |-> stream.data]
    ELSE [err |-> FALSE, cause |-> EmptyString, data |-> stream.data]

\* json.NewDecoder(r).Decode: reads the NEXT value of the stream and leaves
\* what follows it unread, be it more data or a broken connection; a stream
\* that ends before any value is io.EOF, one that breaks there is the read
\* error.
DecodeStream(stream) ==
    IF stream.data = EmptyString
    THEN [err |-> TRUE, cause |-> (IF stream.broken THEN ErrRead ELSE ErrEOF),
          json |-> JNull]
    ELSE IF ParseText(stream.data[1]) = JInvalid
    THEN [err |-> TRUE, cause |-> ErrSyntax, json |-> JNull]
    ELSE [err |-> FALSE, cause |-> EmptyString, json |-> ParseText(stream.data[1])]

\* json.Unmarshal: the WHOLE input must be one value.
DecodeWhole(body) ==
    IF body = EmptyString
    THEN [err |-> TRUE, cause |-> ErrUnexpected, json |-> JNull]
    ELSE IF ParseText(body[1]) = JInvalid \/ Len(body) > 1
    THEN [err |-> TRUE, cause |-> ErrSyntax, json |-> JNull]
    ELSE [err |-> FALSE, cause |-> EmptyString, json |-> ParseText(body[1])]

\* A member of an object fits a struct field of kind t when it is absent,
\* null, or of that kind.
FieldFits(obj, key, t) == ~Has(obj, key) \/ Member(obj, key).t \in {t, "null"}

\* The value the field takes: the member's when it is there and of the
\* field's kind, else the field's zero value.
Field(obj, key, zero) ==
    IF obj.t = "obj" /\ Has(obj, key) /\ Member(obj, key).t = zero.t
    THEN Member(obj, key) ELSE zero

(***************************************************************************)
(* The response structs, each with the fields the callers read, and how    *)
(* encoding/json fills them from a decoded value: the top-level value must *)
(* be an object or null, a member of the wrong kind is a type error,       *)
(* unknown members are ignored and absent ones leave the zero value.       *)
(***************************************************************************)
NoValue == [none |-> TRUE]

TopFits(json) == json.t \in {"obj", "null"}

StringsOf(arr) == [i \in 1..Len(arr.a) |-> arr.a[i].s]

AllStrings(obj, key) ==
    ~Has(obj, key) \/ Member(obj, key).t # "arr"
        \/ \A i \in 1..Len(Member(obj, key).a) : Member(obj, key).a[i].t = "str"

\* the result of filling a struct: a type error, or the struct
Filled(fits, val) ==
    IF fits THEN [err |-> FALSE, cause |-> EmptyString, val |-> val]
            ELSE [err |-> TRUE, cause |-> ErrType, val |-> NoValue]

\* (a variant whose CurrencyId field has lost its struct tag)
PriceResponse_Untagged(json) ==
    Filled(TopFits(json) /\ FieldFits(json, "price", "num"),
           [CurrencyId |-> "",
            Price      |-> Field(json, "price", JNum(0)).n])

PriceResponse(json) ==
    Filled(TopFits(json) /\ FieldFits(json, "currencyId", "str")
                         /\ FieldFits(json, "price", "num"),
           [CurrencyId |-> Field(json, "currencyId", JStr("")).s,
            Price      |-> Field(json, "price", JNum(0)).n])

\* (a variant whose OutTokens field has lost its struct tag)
QuoteResponse_Untagged(json) ==
    Filled(TopFits(json) /\ FieldFits(json, "inTokens", "arr")
                         /\ FieldFits(json, "pathId", "str")
                         /\ AllStrings(json, "inTokens"),
           [InTokens  |-> StringsOf(Field(json, "inTokens", JArr(<< >>))),
            OutTokens |-> << >>,
            PathId    |-> Field(json, "pathId", JStr("")).s])

QuoteResponse(json) ==
    Filled(TopFits(json) /\ FieldFits(json, "inTokens", "arr")
                         /\ FieldFits(json, "outTokens", "arr")
                         /\ FieldFits(json, "pathId", "str")
                         /\ AllStrings(json, "inTokens")
                         /\ AllStrings(json, "outTokens"),
           [InTokens  |-> StringsOf(Field(json, "inTokens", JArr(<< >>))),
            OutTokens |-> StringsOf(Field(json, "outTokens", JArr(<< >>))),
            PathId    |-> Field(json, "pathId", JStr("")).s])

AssembleResponse(json) ==
    LET tx == Field(json, "transaction", JObj({})) IN
    Filled(TopFits(json) /\ FieldFits(json, "blockNumber", "num")
                         /\ FieldFits(json, "transaction", "obj")
                         /\ FieldFits(tx, "to", "str"),
           [BlockNumber |-> Field(json, "blockNumber", JNum(0)).n,
            Transaction |-> [To |-> Field(tx, "to", JStr("")).s]])

RouteSummaryFits(rs) ==
    FieldFits(rs, "tokenIn", "str") /\ FieldFits(rs, "tokenOut", "str")

RouteSummary(rs) ==
    [TokenIn  |-> Field(rs, "tokenIn", JStr("")).s,
     TokenOut |-> Field(rs, "tokenOut", JStr("")).s,
     Route    |-> << >>]

RouteResponse(json) ==
    LET data == Field(json, "data", JObj({}))
        rs   == Field(data, "routeSummary", JObj({}))
    IN  Filled(TopFits(json) /\ FieldFits(json, "code", "num")
                             /\ FieldFits(json, "data", "obj")
                             /\ FieldFits(data, "routeSummary", "obj")
                             /\ FieldFits(data, "routerAddress", "str")
                             /\ RouteSummaryFits(rs),
               [Code |-> Field(json, "code", JNum(0)).n,
                Data |-> [RouteSummary  |-> RouteSummary(rs),
                          RouterAddress |-> Field(data, "routerAddress", JStr("")).s]])

BuildRouteResponse(json) ==
    LET data == Field(json, "data", JObj({})) IN
    Filled(TopFits(json) /\ FieldFits(json, "code", "num")
                         /\ FieldFits(json, "data", "obj")
                         /\ FieldFits(data, "data", "str")
                         /\ FieldFits(data, "routerAddress", "str"),
           [Code |-> Field(json, "code", JNum(0)).n,
            Data |-> [Data          |-> Field(data, "data", JStr("")).s,
                      RouterAddress |-> Field(data, "routerAddress", JStr("")).s]])

(***************************************************************************)
(* The request structs and json.Marshal on them: an object keyed by the    *)
(* struct tags, or an error for a value JSON cannot carry (a NaN or        *)
(* infinite float64, a channel or function behind an interface{}).         *)
(***************************************************************************)
\* a float64 is kept as its text
NonFinite == {"NaN", "+Inf"}
JFloat(txt) == [t |-> "num", s |-> txt, n |-> 0, a |-> << >>, o |-> {}]

\* An interface{} holds nothing ("nil"), a string, or a channel ("chan").
Marshalled(ok, json) ==
    IF ok THEN [err |-> FALSE, cause |-> EmptyString, json |-> json]
          ELSE [err |-> TRUE, cause |-> ErrUnsupported, json |-> JNull]

JStrings(seq) == JArr([i \in 1..Len(seq) |-> JStr(seq[i])])

QuoteRequest(req) ==
    Marshalled(req.GasPrice \notin NonFinite,
               JObj({<<"chainId", JNum(req.ChainId)>>,
                     <<"inputTokens", JStrings(req.InputTokens)>>,
                     <<"outputTokens", JStrings(req.OutputTokens)>>,
                     <<"gasPrice", JFloat(req.GasPrice)>>,
                     <<"userAddr", JStr(req.UserAddr)>>}))

AssembleRequest(req) ==
    Marshalled(TRUE,
               JObj({<<"userAddr", JStr(req.UserAddr)>>,
                     <<"pathId", JStr(req.PathId)>>,
                     <<"simulate", JBool(req.Simulate)>>}))

JExtra(kind) == IF kind = "string" THEN JStr("extra") ELSE JNull

JRoute(r) == JObj({<<"pool", JStr(r.Pool)>>, <<"extra", JExtra(r.Extra)>>})

JRoutes(route) ==
    IF route = << >> THEN JNull
    ELSE JArr([i \in 1..Len(route) |->
                  JArr([j \in 1..Len(route[i]) |-> JRoute(route[i][j])])])

JRouteSummary(rs) ==
    JObj({<<"tokenIn", JStr(rs.TokenIn)>>,
          <<"tokenOut", JStr(rs.TokenOut)>>,
          <<"route", JRoutes(rs.Route)>>})

Marshalable(rs) ==
    \A i \in 1..Len(rs.Route) : \A j \in 1..Len(rs.Route[i]) :
        rs.Route[i][j].Extra # "chan"

BuildRouteRequest(req) ==
    Marshalled(Marshalable(req.RouteSummary),
               JObj({<<"routeSummary", JRouteSummary(req.RouteSummary)>>,
                     <<"sender", JStr(req.Sender)>>,
                     <<"recipient", JStr(req.Recipient)>>,
                     <<"deadline", JNum(req.Deadline)>>,
                     <<"slippageTolerance", JNum(req.SlippageTolerance)>>}))

(***************************************************************************)
(* The clients.  A duration is a number of seconds; a Timeout of 0 means   *)
(* no timeout, as in net/http.                                             *)
(***************************************************************************)
odos_baseURL == Str("https://api.odos.xyz")
kyber_baseURL == Str("https://aggregator-api.kyberswap.com")
kyber_chain == Str("ethereum")
odos_Timeout == 10
kyber_Timeout == 10

OdosNewClient(baseURL) ==
    [baseURL |-> IF baseURL = EmptyString THEN odos_baseURL ELSE baseURL,
     Timeout |-> odos_Timeout]

\* (a variant that forgets the default chain)
KyberNewClient_NoChainDefault(baseURL, chain) ==
    [baseURL |-> (IF baseURL = EmptyString THEN kyber_baseURL ELSE baseURL)
                    \o Str("/") \o chain,
     Timeout |-> kyber_Timeout]

KyberNewClient(baseURL, chain) ==
    [baseURL |-> (IF baseURL = EmptyString THEN kyber_baseURL ELSE baseURL)
                    \o Str("/")
                    \o (IF chain = EmptyString THEN kyber_chain ELSE chain),
     Timeout |-> kyber_Timeout]

\* (a variant with a value receiver: it sets the timeout of a copy)
WithTimeout_Copy(c, ptr, timeout) ==
    [c   |-> c,
     ret |-> "copy"]

\* WithTimeout on the client c that pointer `ptr` points to: the client
\* after the call, and the pointer returned.
WithTimeout(c, ptr, timeout) ==
    [c   |-> [c EXCEPT !.Timeout = timeout],
     ret |-> ptr]

(***************************************************************************)
(* HTTP.  A reply is what the network and the server do with one request:  *)
(* the connection is refused, or after `latency` seconds a response with a *)
(* status and a body arrives, of which `cut` chunks can be read.           *)
(***************************************************************************)
StatusOK == 200
StatusCodes == {StatusOK, 500}
Latencies == {1, 20}

NoReply == [kind |-> "none", latency |-> 0, status |-> 0,
            body |-> EmptyString, cut |-> 0]
Refused == [kind |-> "refused", latency |-> 0, status |-> 0,
            body |-> EmptyString, cut |-> 0]

Responses(bodies) ==
    { [kind |-> "response", latency |-> l, status |-> st, body |-> b, cut |-> k] :
        l \in Latencies, st \in StatusCodes,
        <<b, k>> \in { <<bb, kk>> \in bodies \X (0..(MaxTrailing + 1)) : kk <= Len(bb) } }

Replies(bodies) == {Refused} \cup Responses(bodies)

NoRequest == [method |-> "", url |-> EmptyString, header |-> {},
              hasBody |-> FALSE, body |-> JNull]

\* http.NewRequest: a request with no header set, or the URL's parse error.
NewRequest(method, url, hasBody, body) ==
    IF URLParses(url)
    THEN [err |-> FALSE, cause |-> EmptyString,
          request |-> [method |-> method, url |-> url, header |-> {},
                       hasBody |-> hasBody, body |-> body]]
    ELSE [err |-> TRUE, cause |-> ErrURL, request |-> NoRequest]

\* Header.Set
HeaderSet(request, key, value) ==
    [request EXCEPT !.header =
        { h \in request.header : h[1] # key } \cup {<<key, value>>}]

\* http.Client.Do under the client's Timeout: a transport error, or the
\* response's status and body stream.
Do(c, request, reply) ==
    IF reply.kind = "refused"
    THEN [err |-> TRUE, cause |-> ErrRefused, StatusCode |-> 0,
          Body |-> BodyStream(NoReply)]
    ELSE IF c.Timeout # 0 /\ reply.latency >= c.Timeout
    THEN [err |-> TRUE, cause |-> ErrDeadline, StatusCode |-> 0,
          Body |-> BodyStream(NoReply)]
    ELSE [err |-> FALSE, cause |-> EmptyString, StatusCode |-> reply.status,
          Body |-> BodyStream(reply)]

\* (a variant that lets every status through)
UnexpectedStatus_Never(code) == FALSE

\* the status check of Assemble, GetRoutes and BuildRoute
UnexpectedStatus(code) == code # StatusOK

(***************************************************************************)
(* What a call gives back: (nil, err) or (resp, nil), together with the    *)
(* request it handed to the HTTP client and the reply that request got.    *)
(***************************************************************************)
\* (a variant that hands back the struct together with the error)
Fail_Partial(msg, sent, request, reply) ==
    [respNil |-> FALSE, resp |-> NoValue, errNil |-> FALSE, err |-> msg,
     sent |-> sent, request |-> request, reply |-> reply]

Fail(msg, sent, request, reply) ==
    [respNil |-> TRUE, resp |-> NoValue, errNil |-> FALSE, err |-> msg,
     sent |-> sent, request |-> request, reply |-> reply]

Return(val, request, reply) ==
    [respNil |-> FALSE, resp |-> val, errNil |-> TRUE, err |-> EmptyString,
     sent |-> TRUE, request |-> request, reply |-> reply]

(***************************************************************************)
(* The Odos operations.                                                    *)
(***************************************************************************)
\* (a variant that forgets the Referer)
SetOdosHeaders_NoReferer(request) ==
    HeaderSet(HeaderSet(HeaderSet(request,
        "Content-Type", "application/json"),
        "Accept", "*/*"),
        "Origin", "https://app.odos.xyz")

\* the four headers Quote and Assemble set on their request
SetOdosHeaders(request) ==
    HeaderSet(HeaderSet(HeaderSet(HeaderSet(request,
        "Content-Type", "application/json"),
        "Accept", "*/*"),
        "Origin", "https://app.odos.xyz"),
        "Referer", "https://app.odos.xyz/")

\* http.Client.Get: NewRequest("GET", url, nil), then Do.
Get(c, url, reply) ==
    LET nr == NewRequest("GET", url, FALSE, JNull) IN
    IF nr.err
    THEN [err |-> TRUE, cause |-> nr.cause, StatusCode |-> 0,
          Body |-> BodyStream(NoReply), sent |-> FALSE, request |-> NoRequest]
    ELSE Do(c, nr.request, reply) @@ [sent |-> TRUE, request |-> nr.request]

\* (a variant that checks the status before it decodes, as Assemble does)
GetTokenPrice_StatusChecked(c, chainID, tokenAddr, reply) ==
    LET url  == c.baseURL \o Str("/pricing/token/") \o chainID \o Str("/") \o tokenAddr
        resp == Get(c, url, reply)
        dec  == DecodeStream(resp.Body)
        priceResp == PriceResponse(dec.json)
    IN  IF resp.err
        THEN Fail(Str("failed to get token price: ") \o resp.cause,
                  resp.sent, resp.request, IF resp.sent THEN reply ELSE NoReply)
        ELSE IF resp.StatusCode # StatusOK
        THEN Fail(Str("unexpected status code: ") \o FormatInt(resp.StatusCode),
                  TRUE, resp.request, reply)
        ELSE IF dec.err
        THEN Fail(Str("failed to decode response: ") \o dec.cause,
                  TRUE, resp.request, reply)
        ELSE IF priceResp.err
        THEN Fail(Str("failed to decode response: ") \o priceResp.cause,
                  TRUE, resp.request, reply)
        ELSE Return(priceResp.val, resp.request, reply)

GetTokenPrice(c, chainID, tokenAddr, reply) ==
    LET url  == c.baseURL \o Str("/pricing/token/") \o chainID \o Str("/") \o tokenAddr
        resp == Get(c, url, reply)
        dec  == DecodeStream(resp.Body)
        priceResp == PriceResponse(dec.json)
    IN  IF resp.err
        THEN Fail(Str("failed to get token price: ") \o resp.cause,
                  resp.sent, resp.request, IF resp.sent THEN reply ELSE NoReply)
        ELSE IF dec.err
        THEN Fail(Str("failed to decode response: ") \o dec.cause,
                  TRUE, resp.request, reply)
        ELSE IF priceResp.err
        THEN Fail(Str("failed to decode response: ") \o priceResp.cause,
                  TRUE, resp.request, reply)
        ELSE Return(priceResp.val, resp.request, reply)

Quote(c, req, reply) ==
    LET url      == c.baseURL \o Str("/sor/quote/v2")
        jsonData == QuoteRequest(req)
        nr       == NewRequest("POST", url, TRUE, jsonData.json)
        request  == SetOdosHeaders(nr.request)
        resp     == Do(c, request, reply)
        dec      == DecodeStream(resp.Body)
        quoteResp == QuoteResponse(dec.json)
    IN  IF jsonData.err
        THEN Fail(Str("failed to marshal request: ") \o jsonData.cause,
                  FALSE, NoRequest, NoReply)
        ELSE IF nr.err
        THEN Fail(Str("failed to create request: ") \o nr.cause,
                  FALSE, NoRequest, NoReply)
        ELSE IF resp.err
        THEN Fail(Str("failed to get quote: ") \o resp.cause, TRUE, request, reply)
        ELSE IF dec.err
        THEN Fail(Str("failed to decode response: ") \o dec.cause, TRUE, request, reply)
        ELSE IF quoteResp.err
        THEN Fail(Str("failed to decode response: ") \o quoteResp.cause,
                  TRUE, request, reply)
        ELSE Return(quoteResp.val, request, reply)

\* (a variant that leaves the body out of the message)
AssembleStatusError_NoBody(code, body) ==
    Str("unexpected status code: ") \o FormatInt(code)

\* the error of a response whose status is not 200
AssembleStatusError(code, body) ==
    Str("unexpected status code: ") \o FormatInt(code) \o Str(", response: ") \o body

Assemble(c, userAddr, pathId, isSimulate, reply) ==
    LET url      == c.baseURL \o Str("/sor/assemble")
        req      == [UserAddr |-> userAddr, PathId |-> pathId, Simulate |-> isSimulate]
        jsonData == AssembleRequest(req)
        nr       == NewRequest("POST", url, TRUE, jsonData.json)
        request  == SetOdosHeaders(nr.request)
        resp     == Do(c, request, reply)
        body     == ReadAll(resp.Body)
        dec      == DecodeWhole(body.data)
        assembleResp == AssembleResponse(dec.json)
    IN  IF jsonData.err
        THEN Fail(Str("failed to marshal request: ") \o jsonData.cause,
                  FALSE, NoRequest, NoReply)
        ELSE IF nr.err
        THEN Fail(Str("failed to create request: ") \o nr.cause,
                  FALSE, NoRequest, NoReply)
        ELSE IF resp.err
        THEN Fail(Str("failed to assemble transaction: ") \o resp.cause,
                  TRUE, request, reply)
        ELSE IF body.err
        THEN Fail(Str("failed to read response body: ") \o body.cause,
                  TRUE, request, reply)
        ELSE IF UnexpectedStatus(resp.StatusCode)
        THEN Fail(AssembleStatusError(resp.StatusCode, body.data), TRUE, request, reply)
        ELSE IF dec.err
        THEN Fail(Str("failed to decode response: ") \o dec.cause, TRUE, request, reply)
        ELSE IF assembleResp.err
        THEN Fail(Str("failed to decode response: ") \o assembleResp.cause,
                  TRUE, request, reply)
        ELSE Return(assembleResp.val, request, reply)

(***************************************************************************)
(* The KyberSwap operations.                                               *)
(***************************************************************************)
\* the error of a response whose status is not 200
GetRoutesStatusError(code) == Str("unexpected status code: ") \o FormatInt(code)

GetRoutes(c, tokenIn, tokenOut, amountIn, reply) ==
    LET url  == c.baseURL \o Str("/api/v1/routes?tokenIn=") \o tokenIn
                    \o Str("&tokenOut=") \o tokenOut
                    \o Str("&amountIn=") \o amountIn
        nr   == NewRequest("GET", url, FALSE, JNull)
        resp == Do(c, nr.request, reply)
        dec  == DecodeStream(resp.Body)
        routeResp == RouteResponse(dec.json)
    IN  IF nr.err
        THEN Fail(Str("error creating request: ") \o nr.cause, FALSE, NoRequest, NoReply)
        ELSE IF resp.err
        THEN Fail(Str("error sending request: ") \o resp.cause, TRUE, nr.request, reply)
        ELSE IF UnexpectedStatus(resp.StatusCode)
        THEN Fail(GetRoutesStatusError(resp.StatusCode), TRUE, nr.request, reply)
        ELSE IF dec.err
        THEN Fail(Str("error decoding response: ") \o dec.cause, TRUE, nr.request, reply)
        ELSE IF routeResp.err
        THEN Fail(Str("error decoding response: ") \o routeResp.cause,
                  TRUE, nr.request, reply)
        ELSE Return(routeResp.val, nr.request, reply)

\* the offset BuildRoute adds to the clock, and the slippage it always asks
DeadlineOffset == 20 * 3600
SlippageTolerance == 10

\* (a variant that takes the offset to be twenty minutes)
BuildRouteReqBody_Minutes(routeSummary, sender, recipient, unix) ==
    [RouteSummary      |-> routeSummary,
     Sender            |-> sender,
     Recipient         |-> recipient,
     Deadline          |-> unix + 20 * 60,
     SlippageTolerance |-> SlippageTolerance]

\* the request record BuildRoute fills at clock reading `unix`
BuildRouteReqBody(routeSummary, sender, recipient, unix) ==
    [RouteSummary      |-> routeSummary,
     Sender            |-> sender,
     Recipient         |-> recipient,
     Deadline          |-> unix + DeadlineOffset,
     SlippageTolerance |-> SlippageTolerance]

\* the errors of a response whose status is not 200: its body could not be
\* read, or it could
BuildRouteReadError(code, cause) ==
    Str("status code ") \o FormatInt(code)
        \o Str(", failed to read error response: ") \o cause

\* (a variant that leaves the body out of the message)
BuildRouteStatusError_NoBody(code, body) ==
    Str("unexpected status code: ") \o FormatInt(code)

BuildRouteStatusError(code, body) ==
    Str("unexpected status code: ") \o FormatInt(code) \o Str(": ") \o body

BuildRoute(c, routeSummary, sender, recipient, unix, reply) ==
    LET reqBody  == BuildRouteReqBody(routeSummary, sender, recipient, unix)
        jsonBody == BuildRouteRequest(reqBody)
        url      == c.baseURL \o Str("/api/v1/route/build")
        nr       == NewRequest("POST", url, TRUE, jsonBody.json)
        req      == HeaderSet(nr.request, "Content-Type", "application/json")
        resp     == Do(c, req, reply)
        body     == ReadAll(resp.Body)
        dec      == DecodeStream(resp.Body)
        buildResp == BuildRouteResponse(dec.json)
    IN  IF jsonBody.err
        THEN Fail(Str("error marshaling request: ") \o jsonBody.cause,
                  FALSE, NoRequest, NoReply)
        ELSE IF nr.err
        THEN Fail(Str("error creating request: ") \o nr.cause, FALSE, NoRequest, NoReply)
        ELSE IF resp.err
        THEN Fail(Str("error sending request: ") \o resp.cause, TRUE, req, reply)
        ELSE IF UnexpectedStatus(resp.StatusCode)
        THEN IF body.err
             THEN Fail(BuildRouteReadError(resp.StatusCode, body.cause), TRUE, req, reply)
             ELSE Fail(BuildRouteStatusError(resp.StatusCode, body.data), TRUE, req, reply)
        ELSE IF dec.err
        THEN Fail(Str("error decoding response: ") \o dec.cause, TRUE, req, reply)
        ELSE IF buildResp.err
        THEN Fail(Str("error decoding response: ") \o buildResp.cause, TRUE, req, reply)
        ELSE Return(buildResp.val, req, reply)

(***************************************************************************)
(* The state: one client of each kind, the wall clock, and a caller that   *)
(* makes one call at a time and holds what the call returned until it      *)
(* goes on.                                                                *)
(***************************************************************************)
VARIABLES
    ctor,   \* the arguments the constructors were called with
    odos,   \* the OdosClient: [baseURL, Timeout]
    kyber,  \* the KyberSwapClient: [baseURL, Timeout]
    now,    \* time.Now().Unix()
    last,   \* the call that has just returned, NoCall when there is none
    hist,   \* whether WithTimeout was ever called, and its latest argument
    calls   \* the calls goroutines are in the middle of, a bag of call records

vars == <<ctor, odos, kyber, now, last, hist, calls>>

\* Inputs of the constructors: "" (take the default), a stub server, and a
\* base URL with a control character in it.
BaseURLArgs == {EmptyString, Str("http://stub"), <<"http://stub", CtlChunk>>}
ChainArgs == {EmptyString, Str("bsc")}
TimeoutArgs == {0, 30}

\* Inputs of the operations.
ChainIDs == {Str("1")}
TokenAddrs == {Str("0xDAI"), Str(CtlChunk)}
TokensIn == {Str("0xUSDT"), Str(CtlChunk)}
QuoteRequests ==
    { [ChainId |-> 1, InputTokens |-> <<"0xDAI">>, OutputTokens |-> <<"0xsUSDe">>,
       GasPrice |-> g, UserAddr |-> "0x0"] : g \in {"6.27", "NaN"} }
PathIds == {"p1"}
RouteSummaries ==
    { [TokenIn |-> "0xA", TokenOut |-> "0xB", Route |-> r] :
        r \in { << >>,
                << <<[Pool |-> "0xP", Extra |-> "string"]>> >>,
                << <<[Pool |-> "0xP", Extra |-> "nil"], [Pool |-> "0xQ", Extra |-> "chan"]>> >> } }
Senders == {"0xS"}
Recipients == {"0xT"}

NoArgs == [none |-> TRUE]

NoCall ==
    [op |-> "none", client |-> "", args |-> NoArgs, ret |-> ""]
        @@ Fail(EmptyString, FALSE, NoRequest, NoReply)

Called(op, client, args, outcome) ==
    [op |-> op, client |-> client, args |-> args, ret |-> ""] @@ outcome

Init ==
    /\ ctor \in [odosBase : BaseURLArgs, kyberBase : BaseURLArgs, kyberChain : ChainArgs]
    /\ odos = OdosNewClient(ctor.odosBase)
    /\ kyber = KyberNewClient(ctor.kyberBase, ctor.kyberChain)
    /\ now = 0
    /\ last = NoCall
    /\ hist = [timeoutSet |-> FALSE, timeout |-> 0]
    /\ calls = EmptyBag

\* the wall clock advances
Tick ==
    /\ now < MaxNow
    /\ now' = now + 1
    /\ UNCHANGED <<ctor, odos, kyber, last, hist, calls>>

\* the caller has read what the call returned and goes on
Resume ==
    /\ last # NoCall
    /\ last' = NoCall
    /\ UNCHANGED <<ctor, odos, kyber, now, hist, calls>>

CallGetTokenPrice ==
    /\ last = NoCall
    /\ \E chainID \in ChainIDs, tokenAddr \in TokenAddrs,
          reply \in Replies(Bodies(TxtPrice, TxtPriceBad)) :
            last' = Called("GetTokenPrice", "odos",
                           [chainID |-> chainID, tokenAddr |-> tokenAddr],
                           GetTokenPrice(odos, chainID, tokenAddr, reply))
    /\ UNCHANGED <<ctor, odos, kyber, now, hist, calls>>

CallQuote ==
    /\ last = NoCall
    /\ \E req \in QuoteRequests, reply \in Replies(Bodies(TxtQuote, TxtQuoteBad)) :
            last' = Called("Quote", "odos", [req |-> req], Quote(odos, req, reply))
    /\ UNCHANGED <<ctor, odos, kyber, now, hist, calls>>

CallAssemble ==
    /\ last = NoCall
    /\ \E pathId \in PathIds, isSimulate \in BOOLEAN,
          reply \in Replies(Bodies(TxtAssemble, TxtAssembleBad)) :
            last' = Called("Assemble", "odos",
                           [userAddr |-> "0xU", pathId |-> pathId,
                            isSimulate |-> isSimulate],
                           Assemble(odos, "0xU", pathId, isSimulate, reply))
    /\ UNCHANGED <<ctor, odos, kyber, now, hist, calls>>

CallGetRoutes ==
    /\ last = NoCall
    /\ \E tokenIn \in TokensIn, reply \in Replies(Bodies(TxtRoute, TxtRouteBad)) :
            last' = Called("GetRoutes", "kyber",
                           [tokenIn |-> tokenIn, tokenOut |-> Str("0xsUSDe"),
                            amountIn |-> Str("100")],
                           GetRoutes(kyber, tokenIn, Str("0xsUSDe"), Str("100"), reply))
    /\ UNCHANGED <<ctor, odos, kyber, now, hist, calls>>

CallBuildRoute ==
    /\ last = NoCall
    /\ \E routeSummary \in RouteSummaries, sender \in Senders, recipient \in Recipients,
          reply \in Replies(Bodies(TxtBuild, TxtBuildBad)) :
            last' = Called("BuildRoute", "kyber",
                           [routeSummary |-> routeSummary, sender |-> sender,
                            recipient |-> recipient, unix |-> now],
                           BuildRoute(kyber, routeSummary, sender, recipient, now, reply))
    /\ UNCHANGED <<ctor, odos, kyber, now, hist, calls>>

CallWithTimeout ==
    /\ last = NoCall
    /\ \E timeout \in TimeoutArgs :
        LET out == WithTimeout(kyber, "kyber", timeout) IN
        /\ kyber' = out.c
        /\ last' = [Called("WithTimeout", "kyber", [timeout |-> timeout],
                           Fail(EmptyString, FALSE, NoRequest, NoReply))
                        EXCEPT !.ret = out.ret]
        /\ hist' = [timeoutSet |-> TRUE, timeout |-> timeout]
    /\ UNCHANGED <<ctor, odos, now, calls>>

Next ==
    \/ Tick
    \/ Resume
    \/ CallGetTokenPrice
    \/ CallQuote
    \/ CallAssemble
    \/ CallGetRoutes
    \/ CallBuildRoute
    \/ CallWithTimeout

Spec == Init /\ [][Next]_vars

(***************************************************************************)
(* Vocabulary of the properties.                                           *)
(***************************************************************************)
\* the client the latest call was made on
ClientOf(l) == IF l.client = "odos" THEN odos ELSE kyber

\* the call's request got an HTTP response: the connection was made and
\* the response arrived within the client's timeout
GotResponse(l) ==
    /\ l.sent
    /\ l.reply.kind = "response"
    /\ ClientOf(l).Timeout = 0 \/ l.reply.latency < ClientOf(l).Timeout

\* the body of that response reached the client whole
BodyWhole(l) == l.reply.cut = Len(l.reply.body)

\* the first JSON text of the body reached the client and is one of `texts`
FirstValueIn(l, texts) == l.reply.cut >= 1 /\ l.reply.body[1] \in texts

ObjectsFittingRoute == {TxtEmptyObject, TxtErrorObject, TxtRoute}

(***************************************************************************)
(* C1.  As claimed: every Assemble call whose HTTP response has a status   *)
(* other than 200 returns a nil response and an error whose message        *)
(* contains the status code and the full response body.                    *)
(***************************************************************************)
C1_AsClaimed ==
    (last.op = "Assemble" /\ GotResponse(last) /\ last.reply.status # 200)
        => /\ last.respNil /\ ~last.errNil
           /\ Contains(last.err, FormatInt(last.reply.status))
           /\ Contains(last.err, last.reply.body)

\* C1, amended: an Assemble call whose HTTP response has a status other than
\* 200 returns a nil response and a non-nil error; when the body was read to
\* its end the message contains the status code and the whole body verbatim,
\* whatever the body is; when reading the body failed the error is the read
\* error and its message contains neither the status code nor the body sent.
C1_AssembleNon200 ==
    (last.op = "Assemble" /\ GotResponse(last) /\ last.reply.status # 200)
        => /\ last.respNil /\ ~last.errNil
           /\ BodyWhole(last) =>
                /\ Contains(last.err, FormatInt(last.reply.status))
                /\ Contains(last.err, last.reply.body)
           /\ ~BodyWhole(last) =>
                /\ last.err = Str("failed to read response body: ") \o ErrRead
                /\ ~Contains(last.err, FormatInt(last.reply.status))

\* an Assemble call answered 500 with a body that is valid AssembleResponse
\* JSON returns the error carrying "500" and that body
C1_Witness ==
    /\ last.op = "Assemble" /\ GotResponse(last)
    /\ last.reply.status = 500 /\ last.reply.body = Str(TxtAssemble)
    /\ BodyWhole(last)
    /\ last.respNil
    /\ last.err = <<"unexpected status code: ", "500", ", response: ", TxtAssemble>>

(***************************************************************************)
(* C2.  GetRoutes returns a non-nil RouteResponse with a nil error exactly *)
(* when the request got a response, its status is 200 and the first JSON   *)
(* value of its body is an object that fits RouteResponse; for a response  *)
(* with any other status it returns nil and the error that carries the     *)
(* status code and nothing of the body, decodable or not.                  *)
(***************************************************************************)
C2_GetRoutes ==
    last.op = "GetRoutes"
        => /\ (~last.respNil /\ last.errNil)
                <=> /\ GotResponse(last)
                    /\ last.reply.status = 200
                    /\ FirstValueIn(last, ObjectsFittingRoute)
           /\ (GotResponse(last) /\ last.reply.status # 200)
                => /\ last.respNil /\ ~last.errNil
                   /\ Contains(last.err, FormatInt(last.reply.status))
                   /\ last.err = <<"unexpected status code: ",
                                   ToString(last.reply.status)>>

\* both cases happen: a populated RouteResponse from a 200, and the status
\* error from a 500 whose body would have decoded
C2_WitnessOK ==
    /\ last.op = "GetRoutes" /\ ~last.respNil /\ last.errNil
    /\ last.resp.Data.RouteSummary.TokenIn = "0xA"
    /\ last.resp.Data.RouterAddress = "0xR"

C2_Witness ==
    /\ last.op = "GetRoutes" /\ GotResponse(last)
    /\ last.reply.status = 500 /\ FirstValueIn(last, {TxtRoute})
    /\ last.respNil /\ ~last.errNil

(***************************************************************************)
(* C3.  As claimed: every BuildRoute call whose HTTP response has a status *)
(* other than 200 returns a nil response and an error whose message        *)
(* contains both the status code and the response body.                    *)
(***************************************************************************)
C3_AsClaimed ==
    (last.op = "BuildRoute" /\ GotResponse(last) /\ last.reply.status # 200)
        => /\ last.respNil /\ ~last.errNil
           /\ Contains(last.err, FormatInt(last.reply.status))
           /\ Contains(last.err, last.reply.body)

\* C3, amended: a BuildRoute call whose HTTP response has a status other
\* than 200 returns a nil response and an error whose message contains the
\* status code, and the whole response body too when the body was read to
\* its end (when reading it failed, the read error stands in for the body);
\* a BuildRouteResponse is returned only from a response with status 200.
C3_BuildRouteNon200 ==
    last.op = "BuildRoute"
        => /\ (GotResponse(last) /\ last.reply.status # 200)
                => /\ last.respNil /\ ~last.errNil
                   /\ Contains(last.err, FormatInt(last.reply.status))
                   /\ BodyWhole(last) => Contains(last.err, last.reply.body)
                   /\ ~BodyWhole(last) => Contains(last.err, ErrRead)
                   /\ ~Contains(last.err, Str("error decoding response: "))
           /\ ~last.respNil => (GotResponse(last) /\ last.reply.status = 200)

C3_Witness ==
    /\ last.op = "BuildRoute" /\ GotResponse(last)
    /\ last.reply.status = 500 /\ last.reply.body = <<TxtBuild, TxtTrailing>>
    /\ BodyWhole(last)
    /\ last.err = <<"unexpected status code: ", "500", ": ", TxtBuild, TxtTrailing>>

\* a step in which BuildRoute is called and hands a request to the client
BuildRouteStep == last.op = "none" /\ last'.op = "BuildRoute" /\ last'.sent

(***************************************************************************)
(* C4.  Every BuildRoute call that gets as far as a request puts in its    *)
(* body the deadline clock + 20*3600, read from the clock at the moment of *)
(* the call, the slippage tolerance 10, and the caller's route summary,    *)
(* sender and recipient as given.                                          *)
(***************************************************************************)
C4_BuildRouteBody ==
    [][BuildRouteStep =>
        LET body == last'.request.body
            args == last'.args
        IN  /\ last'.request.hasBody /\ body.t = "obj"
            /\ Member(body, "deadline") = JNum(now + 20 * 3600)
            /\ Member(body, "slippageTolerance") = JNum(10)
            /\ Member(body, "sender") = JStr(args.sender)
            /\ Member(body, "recipient") = JStr(args.recipient)
            /\ Member(Member(body, "routeSummary"), "tokenIn") = JStr(args.routeSummary.TokenIn)
            /\ Member(Member(body, "routeSummary"), "tokenOut") = JStr(args.routeSummary.TokenOut)
            /\ Member(body, "routeSummary") = JRouteSummary(args.routeSummary)
            /\ Cardinality(body.o) = 5
      ]_vars

\* a BuildRoute call made after the clock has advanced, with a route in its
\* summary, whose request carries that later deadline
C4_Witness ==
    /\ last.op = "BuildRoute" /\ last.sent
    /\ last.args.unix = 1
    /\ last.args.routeSummary.Route # << >>
    /\ Member(last.request.body, "deadline") = JNum(72001)
    /\ Member(last.request.body, "sender") = JStr("0xS")
    /\ Member(last.request.body, "recipient") = JStr("0xT")

\* a chain ID and a token address that can stand in a URL
ValidPriceInputs(l) == URLParses(l.args.chainID \o l.args.tokenAddr)

(***************************************************************************)
(* C5.  As claimed: for valid chain ID and token address and any reply,    *)
(* GetTokenPrice returns a price record with a non-empty currency          *)
(* identifier or a non-nil error.                                          *)
(***************************************************************************)
C5_AsClaimed ==
    (last.op = "GetTokenPrice" /\ ValidPriceInputs(last))
        => \/ ~last.errNil
           \/ (~last.respNil /\ last.resp.CurrencyId # "")

\* C5, amended: for valid chain ID and token address and any reply,
\* GetTokenPrice returns exactly one of a price record and a non-nil error,
\* never both nil; the record's currency identifier is the currencyId member
\* of the reply's JSON object, so it is non-empty exactly when the reply
\* carries a non-empty one, and empty for an object without it.
C5_GetTokenPrice ==
    (last.op = "GetTokenPrice" /\ ValidPriceInputs(last))
        => /\ last.respNil # last.errNil
           /\ ~last.respNil =>
                /\ FirstValueIn(last, {TxtPrice}) <=> last.resp.CurrencyId # ""
                /\ FirstValueIn(last, {TxtPrice}) => last.resp.CurrencyId = "USD"

\* a 200 reply "{}" gives a record with an empty currency identifier and no
\* error; a reply with a price gives the record with its currency
C5_WitnessEmpty ==
    /\ last.op = "GetTokenPrice" /\ ValidPriceInputs(last)
    /\ last.reply.status = 200 /\ last.reply.body = Str(TxtEmptyObject)
    /\ last.errNil /\ ~last.respNil /\ last.resp.CurrencyId = ""

C5_Witness ==
    /\ last.op = "GetTokenPrice" /\ ValidPriceInputs(last)
    /\ last.errNil /\ ~last.respNil
    /\ last.resp.CurrencyId = "USD" /\ last.resp.Price = 1

\* a QuoteRequest that JSON can carry
WellFormedQuote(l) == l.args.req.GasPrice \notin NonFinite

(***************************************************************************)
(* C6.  As claimed: whenever Quote returns a nil error, the QuoteResponse  *)
(* has InTokens and OutTokens of non-zero length.                          *)
(***************************************************************************)
C6_AsClaimed ==
    (last.op = "Quote" /\ WellFormedQuote(last) /\ last.errNil)
        => /\ ~last.respNil
           /\ Len(last.resp.InTokens) > 0
           /\ Len(last.resp.OutTokens) > 0

\* C6, amended: whenever Quote returns a nil error it returns a
\* QuoteResponse whose InTokens and OutTokens are the inTokens and outTokens
\* arrays of the reply's JSON object: of non-zero length when the reply
\* carries non-empty arrays, and empty when the object has no such members.
C6_Quote ==
    (last.op = "Quote" /\ WellFormedQuote(last) /\ last.errNil)
        => /\ ~last.respNil
           /\ FirstValueIn(last, {TxtQuote})
                => (last.resp.InTokens = <<"0xA">> /\ last.resp.OutTokens = <<"0xB">>)
           /\ ~FirstValueIn(last, {TxtQuote})
                => (Len(last.resp.InTokens) = 0 /\ Len(last.resp.OutTokens) = 0)

C6_Witness ==
    /\ last.op = "Quote" /\ WellFormedQuote(last) /\ last.errNil
    /\ Len(last.resp.InTokens) > 0 /\ Len(last.resp.OutTokens) > 0
    /\ last.resp.PathId = "p1"

C6_WitnessEmpty ==
    /\ last.op = "Quote" /\ WellFormedQuote(last) /\ last.errNil
    /\ last.reply.body = Str(TxtErrorObject)
    /\ Len(last.resp.InTokens) = 0

(***************************************************************************)
(* The stages of a call and what makes each fail, told from the call's     *)
(* arguments, the client's configuration and the reply.                    *)
(***************************************************************************)
Operations == {"GetTokenPrice", "Quote", "Assemble", "GetRoutes", "BuildRoute"}
StatusChecked == {"Assemble", "GetRoutes", "BuildRoute"}

\* the request cannot be marshalled: a NaN in a QuoteRequest, a channel in
\* a RouteSummary
MarshalFails(l) ==
    \/ l.op = "Quote" /\ l.args.req.GasPrice \in NonFinite
    \/ l.op = "BuildRoute" /\ \E i \in 1..Len(l.args.routeSummary.Route) :
            \E j \in 1..Len(l.args.routeSummary.Route[i]) :
                l.args.routeSummary.Route[i][j].Extra = "chan"

\* the URL has a control character in it, from the base URL or an argument
CreateFails(l) ==
    \/ ~URLParses(ClientOf(l).baseURL)
    \/ l.op = "GetTokenPrice" /\ ~URLParses(l.args.chainID \o l.args.tokenAddr)
    \/ l.op = "GetRoutes" /\ ~URLParses(l.args.tokenIn \o l.args.tokenOut \o l.args.amountIn)

\* no response: refused, or later than the client's timeout
TransportFails(l) == ~GotResponse(l)

\* the status is one the operation rejects
StatusFails(l) == l.op \in StatusChecked /\ l.reply.status # 200

\* the body breaks before the operation has read what it needs of it: all
\* of it where the operation reads it all, its first value elsewhere
ReadFails(l) ==
    IF l.op = "Assemble" \/ (l.op = "BuildRoute" /\ l.reply.status # 200)
    THEN ~BodyWhole(l)
    ELSE l.reply.cut = 0 /\ Len(l.reply.body) > 0

\* the JSON texts each operation's response struct accepts
Accepted(op) ==
    {TxtEmptyObject, TxtErrorObject} \cup
        CASE op = "GetTokenPrice" -> {TxtPrice}
          [] op = "Quote"         -> {TxtQuote}
          [] op = "Assemble"      -> {TxtAssemble}
          [] op = "GetRoutes"     -> {TxtRoute}
          [] op = "BuildRoute"    -> {TxtBuild}

\* what was read is not one JSON value the struct accepts
DecodeFails(l) ==
    \/ ~FirstValueIn(l, Accepted(l.op))
    \/ l.op = "Assemble" /\ Len(l.reply.body) > 1

SomeStageFails(l) ==
    \/ MarshalFails(l)
    \/ CreateFails(l)
    \/ TransportFails(l)
    \/ ReadFails(l)
    \/ StatusFails(l)
    \/ DecodeFails(l)

(***************************************************************************)
(* C7.  Each of the five operations returns exactly one of a non-nil       *)
(* response and a non-nil error, and the response exactly when no stage    *)
(* failed: marshal, request creation, transport, body read, status check,  *)
(* decode; a call that fails before the transport hands no request over.   *)
(***************************************************************************)
C7_OneOfResponseAndError ==
    last.op \in Operations
        => /\ last.respNil <=> ~last.errNil
           /\ SomeStageFails(last) <=> last.respNil
           /\ (MarshalFails(last) \/ CreateFails(last)) => ~last.sent

\* each stage's failure is met with an operation that has the stage: a
\* decode failure of GetTokenPrice, a read failure of Assemble, ...
C7_Witness ==
    /\ last.op = "GetTokenPrice"
    /\ ~MarshalFails(last) /\ ~CreateFails(last) /\ ~TransportFails(last)
    /\ ~ReadFails(last) /\ DecodeFails(last)
    /\ last.respNil /\ ~last.errNil

C7_WitnessOK ==
    /\ last.op = "Assemble" /\ ~SomeStageFails(last)
    /\ ~last.respNil /\ last.errNil /\ last.resp.Transaction.To = "0xR"

\* what the constructors make of their arguments
OrDefault(arg, default) == IF arg = << >> THEN <<default>> ELSE arg

ConstructedKyberURL ==
    OrDefault(ctor.kyberBase, "https://aggregator-api.kyberswap.com")
        \o <<"/">> \o OrDefault(ctor.kyberChain, "ethereum")

(***************************************************************************)
(* C8.  Construction fixes the configuration with defaults.  The Odos base *)
(* URL is https://api.odos.xyz for "" and the argument otherwise; the      *)
(* KyberSwap base URL is base + "/" + chain with                           *)
(* https://aggregator-api.kyberswap.com for an empty base and "ethereum"   *)
(* for an empty chain, and every GetRoutes and BuildRoute URL starts with  *)
(* it; both clients have a 10-second timeout until WithTimeout is called.  *)
(***************************************************************************)
C8_Construction ==
    /\ odos.baseURL = OrDefault(ctor.odosBase, "https://api.odos.xyz")
    /\ kyber.baseURL = ConstructedKyberURL
    /\ (last.op \in {"GetRoutes", "BuildRoute"} /\ last.sent)
            => HasPrefix(last.request.url, ConstructedKyberURL)
    /\ odos.Timeout = 10
    /\ ~hist.timeoutSet => kyber.Timeout = 10

\* a client built with no base and no chain has sent a GetRoutes request to
\* the default host's ethereum path; another was built from both arguments
C8_Witness ==
    /\ ctor.kyberBase = << >> /\ ctor.kyberChain = << >> /\ ctor.odosBase = << >>
    /\ last.op = "GetRoutes" /\ last.sent
    /\ last.request.url = <<"https://aggregator-api.kyberswap.com", "/", "ethereum",
                            "/api/v1/routes?tokenIn=", "0xUSDT",
                            "&tokenOut=", "0xsUSDe", "&amountIn=", "100">>
    /\ ~hist.timeoutSet /\ kyber.Timeout = 10

C8_WitnessGiven ==
    /\ ctor.kyberBase = <<"http://stub">> /\ ctor.kyberChain = <<"bsc">>
    /\ ctor.odosBase = <<"http://stub">> /\ odos.baseURL = <<"http://stub">>
    /\ last.op = "BuildRoute" /\ last.sent
    /\ last.request.url = <<"http://stub", "/", "bsc", "/api/v1/route/build">>

\* the configuration in every state, given the constructors' arguments and
\* the WithTimeout calls so far
C9_Configuration ==
    /\ odos.baseURL = OrDefault(ctor.odosBase, "https://api.odos.xyz")
    /\ kyber.baseURL = ConstructedKyberURL
    /\ odos.Timeout = 10
    /\ kyber.Timeout = IF hist.timeoutSet THEN hist.timeout ELSE 10
    /\ last.op = "WithTimeout"
            => /\ last.ret = last.client
               /\ kyber.Timeout = last.args.timeout

(***************************************************************************)
(* C9.  After any sequence of operations each client's base URL is the one *)
(* set at construction and its timeout is the default or the argument of   *)
(* the latest WithTimeout; WithTimeout changes the timeout alone and       *)
(* returns the client it was called on; the five operations change         *)
(* neither, whether they succeed or fail.                                  *)
(***************************************************************************)
C9_Frame ==
    /\ []C9_Configuration
    /\ [][ /\ odos' = odos
            /\ kyber'.baseURL = kyber.baseURL
            /\ last'.op \in Operations => kyber' = kyber
          ]_vars

\* WithTimeout(0) after WithTimeout(30), with failed and successful calls
\* in between having left the configuration alone
C9_Witness ==
    /\ hist.timeoutSet /\ kyber.Timeout = 30
    /\ last.op = "GetRoutes" /\ last.respNil /\ last.sent

C9_WitnessReturn ==
    /\ last.op = "WithTimeout" /\ last.args.timeout = 0 /\ last.ret = "kyber"
    /\ kyber.Timeout = 0

\* the four headers of the Odos web application
OdosHeaders ==
    { <<"Content-Type", "application/json">>,
      <<"Accept", "*/*">>,
      <<"Origin", "https://app.odos.xyz">>,
      <<"Referer", "https://app.odos.xyz/">> }

(***************************************************************************)
(* C10.  As claimed: every request the Odos client sends, for each of its  *)
(* three endpoints, carries Content-Type: application/json, Accept: */*,   *)
(* Origin: https://app.odos.xyz and Referer: https://app.odos.xyz/.        *)
(***************************************************************************)
C10_AsClaimed ==
    (last.op \in {"GetTokenPrice", "Quote", "Assemble"} /\ last.sent)
        => OdosHeaders \subseteq last.request.header

\* C10, amended: every request the Odos client sends for POST quote and
\* POST assemble carries the four headers; the GET pricing request of
\* GetTokenPrice is sent with none of them set.
C10_OdosHeaders ==
    /\ (last.op \in {"Quote", "Assemble"} /\ last.sent)
            => /\ last.request.method = "POST"
               /\ last.request.header = OdosHeaders
    /\ (last.op = "GetTokenPrice" /\ last.sent)
            => /\ last.request.method = "GET"
               /\ last.request.header = {}

C10_Witness ==
    /\ last.op = "Quote" /\ last.sent
    /\ <<"Referer", "https://app.odos.xyz/">> \in last.request.header
    /\ last.request.url = <<"https://api.odos.xyz", "/sor/quote/v2">>

C10_WitnessGet ==
    /\ last.op = "GetTokenPrice" /\ last.sent /\ GotResponse(last)
    /\ last.request.header = {}

\* the reply of the latest call, had the server answered with status st
WithStatus(l, st) == [l.reply EXCEPT !.status = st]

\* what the latest call, a GetTokenPrice or a Quote, returns on a reply
Again(l, reply) ==
    IF l.op = "GetTokenPrice"
    THEN GetTokenPrice(ClientOf(l), l.args.chainID, l.args.tokenAddr, reply)
    ELSE Quote(ClientOf(l), l.args.req, reply)

(***************************************************************************)
(* C11.  GetTokenPrice and Quote do not look at the status: for a response *)
(* with any status, 200 or not, a body whose first JSON value fits the     *)
(* response struct gives a non-nil response and a nil error, any other     *)
(* body gives a nil response and the decode error, and the same call       *)
(* answered with another status returns the same response and error.  The  *)
(* other three operations reject every status but 200.                     *)
(***************************************************************************)
C11_StatusNotChecked ==
    /\ (last.op \in {"GetTokenPrice", "Quote"} /\ GotResponse(last))
            => /\ FirstValueIn(last, Accepted(last.op))
                    => (~last.respNil /\ last.errNil)
               /\ ~FirstValueIn(last, Accepted(last.op))
                    => /\ last.respNil /\ ~last.errNil
                       /\ HasPrefix(last.err, Str("failed to decode response: "))
               /\ \A st \in StatusCodes :
                    LET other == Again(last, WithStatus(last, st)) IN
                    /\ other.respNil = last.respNil
                    /\ other.resp = last.resp
                    /\ other.err = last.err
    /\ (last.op \in StatusChecked /\ GotResponse(last) /\ last.reply.status # 200)
            => /\ last.respNil /\ ~last.errNil
               /\ BodyWhole(last)
                    => HasPrefix(last.err, Str("unexpected status code: "))

\* a 500 whose body is a price gives the price, with no error; a 500 whose
\* body is no JSON gives the decode error
C11_Witness ==
    /\ last.op = "GetTokenPrice" /\ GotResponse(last)
    /\ last.reply.status = 500 /\ last.reply.body = Str(TxtPrice)
    /\ ~last.respNil /\ last.errNil /\ last.resp.CurrencyId = "USD"

C11_WitnessDecode ==
    /\ last.op = "Quote" /\ GotResponse(last)
    /\ last.reply.status = 500 /\ last.reply.body = Str(TxtHTML) /\ BodyWhole(last)
    /\ last.respNil
    /\ last.err = <<"failed to decode response: ", "invalid character">>

(***************************************************************************)
(* The operations step by step, several goroutines calling at once.  A     *)
(* call builds its request from the client's base URL and its arguments,   *)
(* hands it to the HTTP client, which reads its Timeout field, waits for   *)
(* the reply, and returns.  Other goroutines take their steps in between.  *)
(***************************************************************************)
\* the operation `op` on the client c
Apply(op, c, args, reply) ==
    CASE op = "GetTokenPrice" -> GetTokenPrice(c, args.chainID, args.tokenAddr, reply)
      [] op = "Quote"         -> Quote(c, args.req, reply)
      [] op = "Assemble"      -> Assemble(c, args.userAddr, args.pathId,
                                          args.isSimulate, reply)
      [] op = "GetRoutes"     -> GetRoutes(c, args.tokenIn, args.tokenOut,
                                           args.amountIn, reply)
      [] op = "BuildRoute"    -> BuildRoute(c, args.routeSummary, args.sender,
                                            args.recipient, args.unix, reply)

\* the calls goroutines make
Invocations ==
    { [op |-> "GetTokenPrice", client |-> "odos",
       args |-> [chainID |-> chainID, tokenAddr |-> tokenAddr]] :
            chainID \in ChainIDs, tokenAddr \in TokenAddrs }
    \cup { [op |-> "Quote", client |-> "odos", args |-> [req |-> req]] :
            req \in QuoteRequests }
    \cup { [op |-> "Assemble", client |-> "odos",
            args |-> [userAddr |-> "0xU", pathId |-> pathId, isSimulate |-> TRUE]] :
            pathId \in PathIds }
    \cup { [op |-> "GetRoutes", client |-> "kyber",
            args |-> [tokenIn |-> tokenIn, tokenOut |-> Str("0xsUSDe"),
                      amountIn |-> Str("100")]] : tokenIn \in TokensIn }
    \cup { [op |-> "BuildRoute", client |-> "kyber",
            args |-> [routeSummary |-> routeSummary, sender |-> sender,
                      recipient |-> recipient, unix |-> now]] :
            routeSummary \in {rs \in RouteSummaries : rs.Route = << >>},
            sender \in Senders, recipient \in Recipients }

\* the body the server of each operation answers with when all is well
GoodBody(op) ==
    CASE op = "GetTokenPrice" -> TxtPrice
      [] op = "Quote"         -> TxtQuote
      [] op = "Assemble"      -> TxtAssemble
      [] op = "GetRoutes"     -> TxtRoute
      [] op = "BuildRoute"    -> TxtBuild

\* what comes back for a request: no connection, the good answer soon or
\* late, a 500, or a 200 with a page that is no JSON
Answers(op) ==
    {Refused}
    \cup { [kind |-> "response", latency |-> l, status |-> StatusOK,
            body |-> Str(GoodBody(op)), cut |-> 1] : l \in Latencies }
    \cup { [kind |-> "response", latency |-> 1, status |-> 500,
            body |-> Str(TxtErrorObject), cut |-> 1],
           [kind |-> "response", latency |-> 1, status |-> StatusOK,
            body |-> Str(TxtHTML), cut |-> 1] }

\* the Timeout the HTTP client works with for the request of `call`: the
\* field as it is when the request is handed over
\* (a variant in which every call works on the value it found at its start)
Deadline_Snapshot(c, call) == call.start.Timeout

Deadline(c, call) == c.Timeout

\* where a call is after the reply to its request: it returns, whatever
\* the outcome
\* (a variant that sends the request again when the outcome is an error)
AfterReply_Retry(outcome) == IF outcome.errNil THEN "done" ELSE "built"

AfterReply(outcome) == "done"

\* a call that a goroutine has just entered: the request is built from the
\* client as it is now, and a failure to marshal or to create the request
\* ends the call here
Entered(inv, c) ==
    LET pre == Apply(inv.op, c, inv.args, NoReply) IN
    [op |-> inv.op, client |-> inv.client, args |-> inv.args,
     start |-> c, Timeout |-> c.Timeout, raced |-> FALSE, requests |-> 0,
     pc |-> IF pre.sent THEN "built" ELSE "done",
     out |-> IF pre.sent THEN Fail(EmptyString, FALSE, NoRequest, NoReply) ELSE pre]

\* the bag with one copy of the call `old` replaced by `new`
Replaced(bag, old, new) == (bag (-) SetToBag({old})) (+) SetToBag({new})

\* the in-flight calls on the Kyber client, marked as overlapping a write
Overlapped(call) ==
    IF call.client = "kyber" /\ call.pc # "done"
    THEN [call EXCEPT !.raced = TRUE]
    ELSE call

RECURSIVE Marked(_, _)
Marked(bag, todo) ==
    IF todo = {} THEN EmptyBag
    ELSE LET call == CHOOSE x \in todo : TRUE
             copies == [k \in 1..CopiesIn(call, bag) |-> Overlapped(call)]
             RECURSIVE Put(_)
             Put(k) == IF k = 0 THEN EmptyBag
                       ELSE Put(k - 1) (+) SetToBag({copies[k]})
         IN  Put(CopiesIn(call, bag)) (+) Marked(bag, todo \ {call})

InitCalls ==
    /\ ctor = [odosBase |-> EmptyString, kyberBase |-> EmptyString,
               kyberChain |-> EmptyString]
    /\ odos = OdosNewClient(ctor.odosBase)
    /\ kyber = KyberNewClient(ctor.kyberBase, ctor.kyberChain)
    /\ now = 0
    /\ last = NoCall
    /\ hist = [timeoutSet |-> FALSE, timeout |-> 0]
    /\ calls = EmptyBag

\* a goroutine enters an operation
Enter ==
    /\ BagCardinality(calls) < MaxCalls
    /\ \E inv \in Invocations :
        calls' = calls (+) SetToBag({Entered(inv, IF inv.client = "odos"
                                                   THEN odos ELSE kyber)})
    /\ UNCHANGED <<ctor, odos, kyber, now, last, hist>>

\* the call hands its request to the HTTP client, which reads its Timeout
Send ==
    /\ \E call \in BagToSet(calls) :
        /\ call.pc = "built"
        /\ calls' = Replaced(calls, call,
                [call EXCEPT !.pc = "sent",
                             !.requests = @ + 1,
                             !.Timeout = Deadline(IF call.client = "odos"
                                                  THEN odos ELSE kyber, call)])
    /\ UNCHANGED <<ctor, odos, kyber, now, last, hist>>

\* the reply, or the timeout, ends the wait
Receive ==
    /\ \E call \in BagToSet(calls) :
        /\ call.pc = "sent"
        /\ \E reply \in Answers(call.op) :
            LET outcome == Apply(call.op, [call.start EXCEPT !.Timeout = call.Timeout],
                                 call.args, reply)
            IN  calls' = Replaced(calls, call,
                            [call EXCEPT !.pc = AfterReply(outcome), !.out = outcome])
    /\ UNCHANGED <<ctor, odos, kyber, now, last, hist>>

\* the caller has what the call returned, and the goroutine goes on
Leave ==
    /\ \E call \in BagToSet(calls) :
        /\ call.pc = "done"
        /\ calls' = calls (-) SetToBag({call})
    /\ UNCHANGED <<ctor, odos, kyber, now, last, hist>>

\* a goroutine calls WithTimeout on the Kyber client, with a timeout longer
\* than the default
SetTimeout ==
    /\ \E timeout \in {t \in TimeoutArgs : t > kyber_Timeout} :
        /\ kyber' = WithTimeout(kyber, "kyber", timeout).c
        /\ hist' = [timeoutSet |-> TRUE, timeout |-> timeout]
    /\ calls' = Marked(calls, BagToSet(calls))
    /\ UNCHANGED <<ctor, odos, now, last>>

NextCalls ==
    \/ Enter
    \/ Send
    \/ Receive
    \/ Leave
    \/ SetTimeout

SpecCalls == InitCalls /\ [][NextCalls]_vars

\* the calls goroutines are in the middle of
InFlight == BagToSet(calls)

(***************************************************************************)
(* C12.  A call hands at most one request to the HTTP client: none while   *)
(* it builds its request, one from then on, and it has returned once the   *)
(* reply, or the lack of one, is known.  A call that returned an error     *)
(* after a transport failure, a non-200 status or a body that does not     *)
(* decode sent exactly one request, and a call that failed to marshal or   *)
(* to create its request sent none.                                        *)
(***************************************************************************)
C12_AtMostOneRequest ==
    \A call \in InFlight :
        /\ call.pc \in {"built", "sent", "done"}
        /\ call.requests <= 1
        /\ call.pc = "built" => call.requests = 0
        /\ call.pc = "sent" => call.requests = 1
        /\ call.pc = "done"
            => /\ call.requests = IF call.out.sent THEN 1 ELSE 0
               /\ (MarshalFails(call) \/ CreateFails(call))
                    => (call.requests = 0 /\ ~call.out.errNil /\ call.out.respNil)
               /\ ~(MarshalFails(call) \/ CreateFails(call)) => call.requests = 1

\* a call that got a 500 has returned its error, after one request
C12_Witness ==
    \E call \in InFlight :
        /\ call.op = "BuildRoute" /\ call.pc = "done"
        /\ call.out.reply.kind = "response" /\ call.out.reply.status = 500
        /\ ~call.out.errNil /\ call.requests = 1

\* so has one whose connection was refused, and one whose body is no JSON
C12_WitnessTransport ==
    \E call \in InFlight :
        /\ call.op = "Assemble" /\ call.pc = "done"
        /\ call.out.reply = Refused
        /\ Contains(call.out.err, ErrRefused) /\ call.requests = 1

C12_WitnessDecode ==
    \E call \in InFlight :
        /\ call.op = "Quote" /\ call.pc = "done"
        /\ call.out.reply.body = Str(TxtHTML)
        /\ HasPrefix(call.out.err, Str("failed to decode response: "))
        /\ call.requests = 1

\* a Quote with a NaN has returned without any request
C12_WitnessNone ==
    \E call \in InFlight :
        /\ call.op = "Quote" /\ MarshalFails(call) /\ call.pc = "done"
        /\ ~call.out.errNil /\ call.requests = 0

\* what the call returns run alone: on the client as the call found it,
\* with the same reply
Alone(call) == Apply(call.op, call.start, call.args, call.out.reply)

\* the calls whose request is handed to the HTTP client in this step
Sending ==
    { call \in BagToSet(calls') :
        call.pc = "sent" /\ kyber' = kyber
            /\ CopiesIn(call, calls') > CopiesIn(call, calls) }

(***************************************************************************)
(* C13.  With calls of the five operations interleaved in any way, no step *)
(* of a call writes a client: the Odos client never changes, and the Kyber *)
(* client changes only by WithTimeout, and only in its Timeout.  A call    *)
(* that no WithTimeout overlaps returns what it returns run alone on the   *)
(* same reply.  The request of a call reads the Timeout as it is when the  *)
(* request is sent, so a WithTimeout between a call's start and its        *)
(* request is the one way a call's result differs from its result alone.   *)
(***************************************************************************)
C13_OnlyWithTimeoutRaces ==
    /\ [](\A call \in InFlight :
            /\ call.raced => call.client = "kyber"
            /\ (call.pc = "done" /\ ~call.raced) => call.out = Alone(call)
            /\ (call.pc = "done" /\ call.out # Alone(call))
                    => (call.raced /\ call.Timeout # call.start.Timeout))
    /\ [][ /\ odos' = odos
           /\ kyber'.baseURL = kyber.baseURL
           /\ kyber' # kyber
                => (hist' # hist /\ hist'.timeoutSet /\ kyber'.Timeout = hist'.timeout)
           /\ hist' # hist => kyber'.Timeout = hist'.timeout
           /\ \A call \in Sending : call.Timeout = ClientOf(call).Timeout
         ]_vars

\* a GetRoutes that started under the 10 s default, with a WithTimeout(30)
\* before its request: the reply after 20 s is a result, alone it is a timeout
C13_Witness ==
    \E call \in InFlight :
        /\ call.op = "GetRoutes" /\ call.pc = "done" /\ call.raced
        /\ call.start.Timeout = 10 /\ call.Timeout = 30
        /\ call.out.reply.latency = 20
        /\ call.out.errNil /\ ~call.out.respNil
        /\ Contains(Alone(call).err, ErrDeadline)

\* a GetRoutes and a BuildRoute in flight together, both returned as alone
C13_WitnessTogether ==
    \E a \in InFlight, b \in InFlight :
        /\ a.op = "GetRoutes" /\ b.op = "BuildRoute"
        /\ a.pc = "done" /\ b.pc = "done" /\ ~a.raced /\ ~b.raced
        /\ a.out.errNil /\ b.out.errNil
        /\ a.out = Alone(a) /\ b.out = Alone(b)

====
